---- MODULE Spec2Model ----
(***************************************************************************)
(* A model of the makrukops position engine: square sets (squareSet.ts),   *)
(* attack generation (attacks.ts), the board (board.ts) and the position   *)
(* state machine (makruk.ts).                                              *)
(*                                                                         *)
(* A SquareSet is modelled as the set of its member squares (bit i of the  *)
(* 64-bit value set <=> square i is a member); its two 32-bit halves lo    *)
(* and hi are the sets of bit positions 0..31 of each half.                *)
(***************************************************************************)
EXTENDS Integers, FiniteSets, Sequences, TLC

VARIABLES
    board,      \* Position.board: the ten square sets of a Board, and which are undefined
    turn,       \* Position.turn
    halfmoves,  \* Position.halfmoves
    fullmoves,  \* Position.fullmoves
    failure,    \* what the last call on the position did: "none", or the error it ended with
    line,       \* <<the line of moves being played, the number of its moves played>>, or Off
    legal,      \* every move played so far was accepted by isLegal
    plies,      \* number of play calls made on the position
    stage,      \* "setup": board is the board of a Setup being built; "position": a
                \* Position exists; "error": fromSetup returned an error, held in failure
    sqA,        \* first square argument of the attack functions
    sqB,        \* second square argument of ray / between
    occ,        \* occupancy argument of rookAttacks
    fn,         \* the attack function last applied
    res,        \* its result
    arg,        \* the SquareSet argument of a SquareSet operation applied to occ
    lastMove,   \* the argument of the last play call on the position
    placed,     \* for each square, the piece last set on it and not taken since
    uci,        \* a move, the string makeUci gave for it, and what parseUci gave back
    iter,       \* a SquareSet being iterated: the iterators' closures and their output
    heap,       \* Board, Position and Setup objects: Position.board and Setup.board are
                \* references to Board objects
    remainingChecks  \* Position.remainingChecks: undefined, or a counter for each color

vars == <<board, turn, halfmoves, fullmoves, failure, line, legal, plies, stage, sqA, sqB, occ, fn, res, arg, lastMove, placed, uci, iter, heap, remainingChecks>>

posVars == <<board, turn, halfmoves, fullmoves, failure, line, legal, plies, stage, lastMove>>
attackVars == <<sqA, sqB, occ, fn, res, arg>>
auxVars == <<placed, uci, iter, heap, remainingChecks>>

(***************************************************************************)
(* util.ts, types.ts                                                       *)
(***************************************************************************)
Squares == 0..63

COLORS == {"white", "black"}

ROLES == <<"pawn", "promotedpawn", "knight", "bishop", "rook", "queen", "king">>

RoleSet == {ROLES[i] : i \in 1..Len(ROLES)}

opposite(color) == IF color = "white" THEN "black" ELSE "white"

squareRank(square) == square \div 8

squareFile(square) == square % 8

Abs(n) == IF n < 0 THEN -n ELSE n

SetMin(S) == CHOOSE x \in S : \A y \in S : x <= y

SetMax(S) == CHOOSE x \in S : \A y \in S : x >= y

(***************************************************************************)
(* squareSet.ts: 32-bit words as sets of bit positions 0..31               *)
(***************************************************************************)
WordBits == 0..31

\* the lo and hi halves of a SquareSet, and the SquareSet of two halves
lo(s) == {i \in WordBits : i \in s}

hi(s) == {i \in WordBits : (i + 32) \in s}

SquareSet(l, h) == l \cup {i + 32 : i \in h}

\* bswap32: byte k of the word goes to byte 3 - k
bswap32(n) == {8 * (3 - (i \div 8)) + (i % 8) : i \in n}

\* rbit32: bit i of the word goes to bit 31 - i
rbit32(n) == {31 - i : i \in n}

Bit(n, i) == IF i \in n THEN 1 ELSE 0

xor32(x, y) == (x \ y) \cup (y \ x)

\* x - y mod 2^32 (binary subtraction): bit i of the difference is x_i + y_i + the
\* borrow into bit i, and a borrow comes into bit i exactly when the highest bit
\* below i where x and y differ is a bit of y
Sub32(x, y) ==
    LET d == xor32(x, y)
        borrowers == {j \in d : j \in y}
        Borrow(i) == \E j \in borrowers : j < i /\ \A k \in d : k < i => k <= j
    IN  {i \in WordBits : (i \in d) # Borrow(i)}

\* x + y + carry mod 2^32 (binary addition): a carry comes into bit i exactly when
\* the highest bit below i where x and y agree is set in both, or they agree
\* nowhere below i and the carry comes in
Add32(x, y, carry) ==
    LET d == xor32(x, y)
        both == x \cap y
        Carry(i) ==
            \/ \E j \in both : j < i /\ \A k \in (j + 1)..(i - 1) : k \in d
            \/ carry = 1 /\ \A k \in 0..(i - 1) : k \in d
    IN  {i \in WordBits : (i \in d) # Carry(i)}

\* the bits of a non-negative number below 2^31
BitsOf(n) == {i \in 0..30 : (n \div (2 ^ i)) % 2 = 1}

\* n >>> 1
Shr1(n) == {i - 1 : i \in n \ {0}}

fromSquare(square) == {square}

full == Squares

empty == {}

shl64(s, shift) == {i + shift : i \in {j \in s : j + shift <= 63}}

fromRank(rank) == shl64(0..7, 8 * rank)

fromFile(file) == SquareSet({file + 8 * k : k \in 0..3}, {file + 8 * k : k \in 0..3})

backranks == SquareSet(0..7, 24..31)

\* new SquareSet(0x55aa55aa, 0x55aa55aa)
lightSquares == SquareSet(BitsOf(1437226410), BitsOf(1437226410))

\* new SquareSet(0xaa55aa55, 0xaa55aa55): bit 31 and the bits of 0x2a55aa55
darkSquares == SquareSet({31} \cup BitsOf(710257237), {31} \cup BitsOf(710257237))

xor(s, other) == (s \ other) \cup (other \ s)

bswap64(s) == SquareSet(bswap32(hi(s)), bswap32(lo(s)))

rbit64(s) == SquareSet(rbit32(hi(s)), rbit32(lo(s)))

moreThanOne(s) == Cardinality(s) > 1

\* undefined, the result of last, first and singleSquare where no square answers
None == -1

last(s) == IF s = {} THEN None ELSE SetMax(s)

first(s) == IF s = {} THEN None ELSE SetMin(s)

singleSquare(s) == IF moreThanOne(s) THEN None ELSE last(s)

defined(v) == v # None

\* minus64 without the borrow from the low half into the high half
minus64NoBorrow(s, other) ==
    SquareSet(Sub32(lo(s), lo(other)), Sub32(hi(s), hi(other)))

\* minus64: lo = this.lo - other.lo; c = the carry of lo + other.lo out of bit 31,
\* computed on the halved words; hi = this.hi - (other.hi + c)
minus64(s, other) ==
    LET l == Sub32(lo(s), lo(other))
        c == Bit(Add32(Shr1(lo(other)), Shr1(l),
                       IF 0 \in l /\ 0 \in lo(other) THEN 1 ELSE 0), 31)
    IN  SquareSet(l, Sub32(hi(s), Add32(hi(other), {}, c)))

\* withoutFirst: the set with its first (lowest) member removed
withoutFirst(s) == IF s = {} THEN {} ELSE s \ {SetMin(s)}

(***************************************************************************)
(* attacks.ts                                                              *)
(***************************************************************************)
computeRange(square, deltas) ==
    {sq \in {square + d : d \in deltas} :
        0 <= sq /\ sq < 64 /\ Abs(squareFile(square) - squareFile(sq)) <= 2}

KING_ATTACKS == [sq \in Squares |-> computeRange(sq, {-9, -8, -7, -1, 1, 7, 8, 9})]

QUEEN_ATTACKS == [sq \in Squares |-> computeRange(sq, {-9, -7, 7, 9})]

KNIGHT_ATTACKS == [sq \in Squares |-> computeRange(sq, {-17, -15, -10, -6, 6, 10, 15, 17})]

BISHOP_ATTACKS ==
    [white |-> [sq \in Squares |-> computeRange(sq, {-7, -9, 7, 8, 9})],
     black |-> [sq \in Squares |-> computeRange(sq, {-7, -8, -9, 7, 9})]]

PAWN_ATTACKS ==
    [white |-> [sq \in Squares |-> computeRange(sq, {7, 9})],
     black |-> [sq \in Squares |-> computeRange(sq, {-7, -9})]]

kingAttacks(square) == KING_ATTACKS[square]

queenAttacks(square) == QUEEN_ATTACKS[square]

knightAttacks(square) == KNIGHT_ATTACKS[square]

bishopAttacks(color, square) == BISHOP_ATTACKS[color][square]

pawnAttacks(color, square) == PAWN_ATTACKS[color][square]

FILE_RANGE == [sq \in Squares |-> fromFile(squareFile(sq)) \ {sq}]

RANK_RANGE == [sq \in Squares |-> fromRank(squareRank(sq)) \ {sq}]

hyperbola(bit, range, occupied) ==
    LET forward == occupied \cap range
        reverse == bswap64(forward)
        forward2 == minus64(forward, bit)
        reverse2 == minus64(reverse, bswap64(bit))
    IN  xor(forward2, bswap64(reverse2)) \cap range

fileAttacks(square, occupied) ==
    hyperbola(fromSquare(square), FILE_RANGE[square], occupied)

\* rankAttacks subtracting the bit of square, not of 63 - square, from the reversed set
rankAttacksMirrorDropped(square, occupied) ==
    LET range == RANK_RANGE[square]
        forward == occupied \cap range
        reverse == rbit64(forward)
        forward2 == minus64(forward, fromSquare(square))
        reverse2 == minus64(reverse, fromSquare(square))
    IN  xor(forward2, rbit64(reverse2)) \cap range

rankAttacks(square, occupied) ==
    LET range == RANK_RANGE[square]
        forward == occupied \cap range
        reverse == rbit64(forward)
        forward2 == minus64(forward, fromSquare(square))
        reverse2 == minus64(reverse, fromSquare(63 - square))
    IN  xor(forward2, rbit64(reverse2)) \cap range

rookAttacks(square, occupied) ==
    xor(fileAttacks(square, occupied), rankAttacks(square, occupied))

\* attacks(piece, square, occupied)
attacks(piece, square, occupied) ==
    CASE piece.role = "pawn" -> pawnAttacks(piece.color, square)
      [] piece.role = "knight" -> knightAttacks(square)
      [] piece.role = "bishop" -> bishopAttacks(piece.color, square)
      [] piece.role = "rook" -> rookAttacks(square, occupied)
      [] piece.role \in {"queen", "promotedpawn"} -> queenAttacks(square)
      [] piece.role = "king" -> kingAttacks(square)

\* ray without its rank case
rayFileOnly(a, b) ==
    IF b \in FILE_RANGE[a] THEN FILE_RANGE[a] \cup {a} ELSE {}

ray(a, b) ==
    IF b \in RANK_RANGE[a] THEN RANK_RANGE[a] \cup {a}
    ELSE IF b \in FILE_RANGE[a] THEN FILE_RANGE[a] \cup {a}
    ELSE {}

between(a, b) ==
    withoutFirst(ray(a, b) \cap xor(shl64(full, a), shl64(full, b)))

(***************************************************************************)
(* board.ts                                                                *)
(*                                                                         *)
(* A Board is a record of its ten square sets; undef names the properties  *)
(* that were never assigned (their value is undefined, and calling a       *)
(* method on them throws a TypeError).                                     *)
(***************************************************************************)
NoPiece == [color |-> "none", role |-> "none"]

Piece(color, role) == [color |-> color, role |-> role]

\* Board.reset() with the promotedpawn set assigned as well
BoardDefaultAllAssigned ==
    [occupied     |-> (0..15) \cup (48..63),
     white        |-> 0..15,
     black        |-> 48..63,
     pawn         |-> (8..15) \cup (48..55),
     promotedpawn |-> {},
     knight       |-> {1, 6, 57, 62},
     bishop       |-> {2, 5, 58, 61},
     rook         |-> {0, 7, 56, 63},
     queen        |-> {3, 59},
     king         |-> {4, 60},
     undef        |-> {}]

\* Board.reset(): every set is assigned except promotedpawn
BoardDefault ==
    [occupied     |-> (0..15) \cup (48..63),                \* (0xffff, 0xffff_0000)
     white        |-> 0..15,                                \* (0xffff, 0)
     black        |-> 48..63,                               \* (0, 0xffff_0000)
     pawn         |-> (8..15) \cup (48..55),                \* (0xff00, 0x00ff_0000)
     promotedpawn |-> {},
     knight       |-> SquareSet(BitsOf(66), {25, 30}),      \* (0x42, 0x4200_0000)
     bishop       |-> SquareSet(BitsOf(36), {26, 29}),      \* (0x24, 0x2400_0000)
     rook         |-> SquareSet(BitsOf(129), {24, 31}),     \* (0x81, 0x8100_0000)
     queen        |-> SquareSet(BitsOf(8), {27}),           \* (0x8, 0x0800_0000)
     king         |-> SquareSet(BitsOf(16), {28}),          \* (0x10, 0x1000_0000)
     undef        |-> {"promotedpawn"}]

\* Board.empty() / Board.clear(): every set is assigned the empty set
BoardEmpty ==
    [occupied |-> {}, white |-> {}, black |-> {}, pawn |-> {}, promotedpawn |-> {},
     knight |-> {}, bishop |-> {}, rook |-> {}, queen |-> {}, king |-> {},
     undef |-> {}]

\* Board.clone(): copies the ten properties, undefined ones included
BoardClone(b) ==
    [occupied |-> b.occupied, white |-> b.white, black |-> b.black, pawn |-> b.pawn,
     promotedpawn |-> b.promotedpawn, knight |-> b.knight, bishop |-> b.bishop,
     rook |-> b.rook, queen |-> b.queen, king |-> b.king, undef |-> b.undef]

getColor(b, square) ==
    IF square \in b.white THEN "white"
    ELSE IF square \in b.black THEN "black"
    ELSE "none"

\* Board.getRole: the first role of ROLES whose set has the square; "TypeError" when
\* an undefined set is probed before one is found; "undefined" when none has it
getRole(b, square) ==
    LET hits == {i \in 1..Len(ROLES) : ROLES[i] \notin b.undef /\ square \in b[ROLES[i]]}
        holes == {i \in 1..Len(ROLES) : ROLES[i] \in b.undef}
    IN  IF holes # {} /\ (hits = {} \/ SetMin(holes) < SetMin(hits)) THEN "TypeError"
        ELSE IF hits # {} THEN ROLES[SetMin(hits)]
        ELSE "undefined"

\* Board.get: [threw, piece]
get(b, square) ==
    LET color == getColor(b, square)
    IN  IF color = "none" THEN [threw |-> FALSE, piece |-> NoPiece]
        ELSE LET role == getRole(b, square)
             IN  IF role = "TypeError" THEN [threw |-> TRUE, piece |-> NoPiece]
                 ELSE [threw |-> FALSE, piece |-> Piece(color, role)]

\* take leaving the square in the set of the piece's role
takeKeepsRole(b, square) ==
    LET g == get(b, square)
    IN  IF g.threw THEN [threw |-> TRUE, board |-> b, piece |-> NoPiece]
        ELSE IF g.piece = NoPiece THEN [threw |-> FALSE, board |-> b, piece |-> NoPiece]
        ELSE [threw |-> FALSE,
              board |-> [b EXCEPT !.occupied = @ \ {square},
                                  ![g.piece.color] = @ \ {square}],
              piece |-> g.piece]

\* Board.take: [threw, board, piece]; the board is the one the call leaves behind,
\* also when it throws part-way
take(b, square) ==
    LET g == get(b, square)
    IN  IF g.threw THEN [threw |-> TRUE, board |-> b, piece |-> NoPiece]
        ELSE IF g.piece = NoPiece THEN [threw |-> FALSE, board |-> b, piece |-> NoPiece]
        ELSE LET b1 == [b EXCEPT !.occupied = @ \ {square},
                                 ![g.piece.color] = @ \ {square}]
             IN  IF g.piece.role \notin RoleSet \/ g.piece.role \in b.undef
                 THEN [threw |-> TRUE, board |-> b1, piece |-> NoPiece]
                 ELSE [threw |-> FALSE,
                       board |-> [b1 EXCEPT ![g.piece.role] = @ \ {square}],
                       piece |-> g.piece]

\* Board.set: [threw, board, old]
set(b, square, piece) ==
    LET t == take(b, square)
    IN  IF t.threw THEN [threw |-> TRUE, board |-> t.board, old |-> NoPiece]
        ELSE LET b1 == [t.board EXCEPT !.occupied = @ \cup {square},
                                       ![piece.color] = @ \cup {square}]
             IN  IF piece.role \notin RoleSet \/ piece.role \in b.undef
                 THEN [threw |-> TRUE, board |-> b1, old |-> NoPiece]
                 ELSE [threw |-> FALSE,
                       board |-> [b1 EXCEPT ![piece.role] = @ \cup {square}],
                       old |-> t.piece]

pieces(b, color, role) == b[color] \cap b[role]

kingOf(b, color) == singleSquare(pieces(b, color, "king"))

(***************************************************************************)
(* makruk.ts                                                               *)
(*                                                                         *)
(* A position is the record [board, turn, halfmoves, fullmoves];           *)
(* remainingChecks is undefined after reset() and setupUnchecked() alike.  *)
(***************************************************************************)
Pos(b, t, h, f) == [board |-> b, turn |-> t, halfmoves |-> h, fullmoves |-> f]

Move(from, to, promotion) == [from |-> from, to |-> to, promotion |-> promotion]

attacksTo(square, attacker, b, occupied) ==
    b[attacker] \cap
        (rookAttacks(square, occupied)
            \cup (bishopAttacks(opposite(attacker), square) \cap b.bishop)
            \cup (knightAttacks(square) \cap b.knight)
            \cup (kingAttacks(square) \cap b.king)
            \cup (queenAttacks(square) \cap b.king)
            \cup (pawnAttacks(opposite(attacker), square) \cap b.pawn))

kingAttackers(pos, square, attacker, occupied) ==
    attacksTo(square, attacker, pos.board, occupied)

isVariantEnd(pos) == FALSE

\* Position.ctx
ctx(pos) ==
    LET king == kingOf(pos.board, pos.turn)
    IN  IF ~defined(king)
        THEN [king |-> king, blockers |-> {}, checkers |-> {},
              variantEnd |-> isVariantEnd(pos), mustCapture |-> FALSE]
        ELSE LET snipers == rookAttacks(king, {}) \cap pos.board[opposite(pos.turn)]
                 Blocked(sniper) == between(king, sniper) \cap pos.board.occupied
             IN  [king |-> king,
                  blockers |-> UNION {Blocked(sniper) : sniper \in
                                        {sn \in snipers : ~moreThanOne(Blocked(sn))}},
                  checkers |-> kingAttackers(pos, king, opposite(pos.turn),
                                             pos.board.occupied),
                  variantEnd |-> isVariantEnd(pos),
                  mustCapture |-> FALSE]

\* the pseudo-legal destinations with the double step allowed from every rank
pseudoOfDoubleStepAnywhere(pos, square, piece) ==
    IF piece.role = "pawn"
    THEN LET captures == pawnAttacks(pos.turn, square) \cap pos.board[opposite(pos.turn)]
             delta == IF pos.turn = "white" THEN 8 ELSE -8
             step == square + delta
             canDoubleStep == TRUE
             doubleStep == step + delta
         IN  IF 0 <= step /\ step < 64 /\ step \notin pos.board.occupied
             THEN IF canDoubleStep /\ doubleStep \notin pos.board.occupied
                  THEN captures \cup {step, doubleStep}
                  ELSE captures \cup {step}
             ELSE captures
    ELSE IF piece.role = "bishop" THEN bishopAttacks(pos.turn, square)
    ELSE IF piece.role = "knight" THEN knightAttacks(square)
    ELSE IF piece.role = "rook" THEN rookAttacks(square, pos.board.occupied)
    ELSE IF piece.role = "queen" THEN queenAttacks(square)
    ELSE kingAttacks(square)

\* the pseudo-legal destinations of the piece on square, as Position.dests
\* computes them before its legality filters
pseudoOf(pos, square, piece) ==
    IF piece.role = "pawn"
    THEN LET captures == pawnAttacks(pos.turn, square) \cap pos.board[opposite(pos.turn)]
             delta == IF pos.turn = "white" THEN 8 ELSE -8
             step == square + delta
             canDoubleStep == IF pos.turn = "white" THEN square < 16 ELSE square >= 64 - 16
             doubleStep == step + delta
         IN  IF 0 <= step /\ step < 64 /\ step \notin pos.board.occupied
             THEN IF canDoubleStep /\ doubleStep \notin pos.board.occupied
                  THEN captures \cup {step, doubleStep}
                  ELSE captures \cup {step}
             ELSE captures
    ELSE IF piece.role = "bishop" THEN bishopAttacks(pos.turn, square)
    ELSE IF piece.role = "knight" THEN knightAttacks(square)
    ELSE IF piece.role = "rook" THEN rookAttacks(square, pos.board.occupied)
    ELSE IF piece.role = "queen" THEN queenAttacks(square)
    ELSE kingAttacks(square)

\* dests without the restriction that a check puts on the destinations
destsCtxIgnoringCheck(pos, square, c) ==
    IF c.variantEnd THEN [threw |-> FALSE, value |-> {}]
    ELSE LET g == get(pos.board, square)
         IN  IF g.threw THEN [threw |-> TRUE, value |-> {}]
             ELSE IF g.piece = NoPiece \/ g.piece.color # pos.turn
             THEN [threw |-> FALSE, value |-> {}]
             ELSE LET piece == g.piece
                      pseudo == pseudoOf(pos, square, piece) \ pos.board[pos.turn]
                      occNoKing == pos.board.occupied \ {square}
                      safe == IF piece.role = "king"
                              THEN {to \in pseudo :
                                      kingAttackers(pos, to, opposite(pos.turn), occNoKing) = {}}
                              ELSE pseudo
                      unpinned(d) == IF square \in c.blockers THEN d \cap ray(square, c.king)
                                     ELSE d
                  IN  IF ~defined(c.king) THEN [threw |-> FALSE, value |-> pseudo]
                      ELSE [threw |-> FALSE, value |-> unpinned(safe)]

\* dests without the restriction of a blocker to the line through it and the king
destsCtxIgnoringPins(pos, square, c) ==
    IF c.variantEnd THEN [threw |-> FALSE, value |-> {}]
    ELSE LET g == get(pos.board, square)
         IN  IF g.threw THEN [threw |-> TRUE, value |-> {}]
             ELSE IF g.piece = NoPiece \/ g.piece.color # pos.turn
             THEN [threw |-> FALSE, value |-> {}]
             ELSE LET piece == g.piece
                      pseudo == pseudoOf(pos, square, piece) \ pos.board[pos.turn]
                      occNoKing == pos.board.occupied \ {square}
                      safe == IF piece.role = "king"
                              THEN {to \in pseudo :
                                      kingAttackers(pos, to, opposite(pos.turn), occNoKing) = {}}
                              ELSE pseudo
                      checker == singleSquare(c.checkers)
                      unpinned(d) == d
                  IN  IF ~defined(c.king) THEN [threw |-> FALSE, value |-> pseudo]
                      ELSE IF c.checkers # {}
                      THEN IF ~defined(checker) THEN [threw |-> FALSE, value |-> {}]
                           ELSE [threw |-> FALSE,
                                 value |-> unpinned(safe \cap
                                     (between(checker, c.king) \cup {checker}))]
                      ELSE [threw |-> FALSE, value |-> unpinned(safe)]

\* Position.dests(square, ctx): [threw, value]
destsCtx(pos, square, c) ==
    IF c.variantEnd THEN [threw |-> FALSE, value |-> {}]
    ELSE LET g == get(pos.board, square)
         IN  IF g.threw THEN [threw |-> TRUE, value |-> {}]
             ELSE IF g.piece = NoPiece \/ g.piece.color # pos.turn
             THEN [threw |-> FALSE, value |-> {}]
             ELSE LET piece == g.piece
                      pseudo == pseudoOf(pos, square, piece) \ pos.board[pos.turn]
                      occNoKing == pos.board.occupied \ {square}
                      safe == IF piece.role = "king"
                              THEN {to \in pseudo :
                                      kingAttackers(pos, to, opposite(pos.turn), occNoKing) = {}}
                              ELSE pseudo
                      checker == singleSquare(c.checkers)
                      unpinned(d) == IF square \in c.blockers THEN d \cap ray(square, c.king)
                                     ELSE d
                  IN  IF ~defined(c.king) THEN [threw |-> FALSE, value |-> pseudo]
                      ELSE IF c.checkers # {}
                      THEN IF ~defined(checker) THEN [threw |-> FALSE, value |-> {}]
                           ELSE [threw |-> FALSE,
                                 value |-> unpinned(safe \cap
                                     (between(checker, c.king) \cup {checker}))]
                      ELSE [threw |-> FALSE, value |-> unpinned(safe)]

\* pseudoDests(pos, square, ctx): [threw, value]
pseudoDests(pos, square, c) ==
    IF c.variantEnd THEN [threw |-> FALSE, value |-> {}]
    ELSE LET g == get(pos.board, square)
         IN  IF g.threw THEN [threw |-> TRUE, value |-> {}]
             ELSE IF g.piece = NoPiece \/ g.piece.color # pos.turn
             THEN [threw |-> FALSE, value |-> {}]
             ELSE LET pseudo == attacks(g.piece, square, pos.board.occupied)
                      delta == IF pos.turn = "white" THEN 8 ELSE -8
                      step == square + delta
                      canDoubleStep == IF pos.turn = "white" THEN square < 16
                                       ELSE square >= 64 - 16
                      doubleStep == step + delta
                      captures == pseudo \cap pos.board[opposite(pos.turn)]
                  IN  IF g.piece.role = "pawn"
                      THEN [threw |-> FALSE,
                            value |-> IF 0 <= step /\ step < 64
                                         /\ step \notin pos.board.occupied
                                      THEN IF canDoubleStep
                                              /\ doubleStep \notin pos.board.occupied
                                           THEN captures \cup {step, doubleStep}
                                           ELSE captures \cup {step}
                                      ELSE captures]
                      ELSE [threw |-> FALSE, value |-> pseudo \ pos.board[pos.turn]]

\* Position.dests(square) with the context computed by ctx()
dests(pos, square) == destsCtx(pos, square, ctx(pos))

\* Position.hasDests(ctx): squares of the side to move in ascending order, stopping
\* at the first with a destination; [threw, value]
hasDests(pos, c) ==
    LET own == pos.board[pos.turn]
        found == {sq \in own : ~destsCtx(pos, sq, c).threw /\ destsCtx(pos, sq, c).value # {}}
        thrown == {sq \in own : destsCtx(pos, sq, c).threw}
    IN  IF thrown # {} /\ (found = {} \/ SetMin(thrown) < SetMin(found))
        THEN [threw |-> TRUE, value |-> FALSE]
        ELSE [threw |-> FALSE, value |-> found # {}]

\* isLegal without the rule that ties the promotion to a pawn reaching a back rank
isLegalCtxAnyPromotion(pos, move, c) ==
    IF move.promotion = "pawn" THEN [threw |-> FALSE, value |-> FALSE]
    ELSE LET d == destsCtx(pos, move.from, c)
         IN  [threw |-> d.threw, value |-> ~d.threw /\ move.to \in d.value]

\* Position.isLegal(move, ctx): [threw, value]
isLegalCtx(pos, move, c) ==
    IF move.promotion = "pawn" THEN [threw |-> FALSE, value |-> FALSE]
    ELSE IF (move.promotion # "none") #
            (move.from \in pos.board.pawn /\ move.to \in backranks)
    THEN [threw |-> FALSE, value |-> FALSE]
    ELSE LET d == destsCtx(pos, move.from, c)
         IN  [threw |-> d.threw, value |-> ~d.threw /\ move.to \in d.value]

\* Position.isLegal(move) with the context computed by ctx()
isLegal(pos, move) == isLegalCtx(pos, move, ctx(pos))

\* Position.isCheck
isCheck(pos) ==
    LET king == kingOf(pos.board, pos.turn)
    IN  defined(king) /\
        kingAttackers(pos, king, opposite(pos.turn), pos.board.occupied) # {}

\* Position.isCheckmate(): [threw, value]
isCheckmate(pos) ==
    LET c == ctx(pos)
    IN  IF c.variantEnd \/ c.checkers = {} THEN [threw |-> FALSE, value |-> FALSE]
        ELSE LET h == hasDests(pos, c)
             IN  [threw |-> h.threw, value |-> ~h.threw /\ ~h.value]

\* Position.isStalemate(): [threw, value]
isStalemate(pos) ==
    LET c == ctx(pos)
    IN  IF c.variantEnd \/ c.checkers # {} THEN [threw |-> FALSE, value |-> FALSE]
        ELSE LET h == hasDests(pos, c)
             IN  [threw |-> h.threw, value |-> ~h.threw /\ ~h.value]

\* Position.hasInsufficientMaterial(color)
hasInsufficientMaterial(pos, color) ==
    LET b == pos.board
    IN  IF b[color] \cap b.pawn # {} THEN FALSE
        ELSE IF b[color] \cap b.knight # {}
        THEN /\ Cardinality(b[color]) <= 2
             /\ (b[opposite(color)] \ b.king) \ b.queen = {}
        ELSE IF b[color] \cap b.bishop # {}
        THEN LET sameColor == \/ b.bishop \cap darkSquares = {}
                              \/ b.bishop \cap lightSquares = {}
             IN  sameColor /\ b.pawn = {} /\ b.knight = {}
        ELSE TRUE

\* Position.isInsufficientMaterial()
isInsufficientMaterial(pos) == \A color \in COLORS : hasInsufficientMaterial(pos, color)

\* Position.outcome(): [threw, value]; value is the winner's color, "draw" for
\* {winner: undefined}, "undefined" for no outcome
outcome(pos) ==
    LET mate == isCheckmate(pos)
    IN  IF mate.threw THEN [threw |-> TRUE, value |-> "undefined"]
        ELSE IF mate.value THEN [threw |-> FALSE, value |-> opposite(pos.turn)]
        ELSE IF isInsufficientMaterial(pos) THEN [threw |-> FALSE, value |-> "draw"]
        ELSE LET stale == isStalemate(pos)
             IN  IF stale.threw THEN [threw |-> TRUE, value |-> "undefined"]
                 ELSE [threw |-> FALSE,
                       value |-> IF stale.value THEN "draw" ELSE "undefined"]

\* Position.allDests(): [threw, value]; value maps each square of the side to move
\* to its destinations
allDests(pos) ==
    LET c == ctx(pos)
        own == IF c.variantEnd THEN {} ELSE pos.board[pos.turn]
    IN  [threw |-> \E sq \in own : destsCtx(pos, sq, c).threw,
         value |-> [sq \in own |-> destsCtx(pos, sq, c).value]]

\* play without the reset of halfmoves on a capture
playNoCaptureReset(pos, move) ==
    LET p1 == [pos EXCEPT !.halfmoves = @ + 1,
                          !.fullmoves = IF pos.turn = "black" THEN @ + 1 ELSE @,
                          !.turn = opposite(pos.turn)]
        t == take(pos.board, move.from)
    IN  IF t.threw THEN [threw |-> TRUE, pos |-> [p1 EXCEPT !.board = t.board]]
        ELSE IF t.piece = NoPiece THEN [threw |-> FALSE, pos |-> p1]
        ELSE LET isPawn == t.piece.role = "pawn"
                 piece == IF isPawn /\ move.promotion # "none"
                          THEN Piece(t.piece.color, move.promotion)
                          ELSE t.piece
                 p2 == IF isPawn THEN [p1 EXCEPT !.halfmoves = 0] ELSE p1
                 st == set(t.board, move.to, piece)
             IN  [threw |-> st.threw, pos |-> [p2 EXCEPT !.board = st.board]]

\* Position.play(move): [threw, pos]; pos is the position the call leaves behind,
\* also when it throws part-way
play(pos, move) ==
    LET p1 == [pos EXCEPT !.halfmoves = @ + 1,
                          !.fullmoves = IF pos.turn = "black" THEN @ + 1 ELSE @,
                          !.turn = opposite(pos.turn)]
        t == take(pos.board, move.from)
    IN  IF t.threw THEN [threw |-> TRUE, pos |-> [p1 EXCEPT !.board = t.board]]
        ELSE IF t.piece = NoPiece THEN [threw |-> FALSE, pos |-> p1]
        ELSE LET isPawn == t.piece.role = "pawn"
                 piece == IF isPawn /\ move.promotion # "none"
                          THEN Piece(t.piece.color, move.promotion)
                          ELSE t.piece
                 p2 == IF isPawn THEN [p1 EXCEPT !.halfmoves = 0] ELSE p1
                 st == set(t.board, move.to, piece)
             IN  IF st.threw THEN [threw |-> TRUE, pos |-> [p2 EXCEPT !.board = st.board]]
                 ELSE [threw |-> FALSE,
                       pos |-> [p2 EXCEPT !.board = st.board,
                                          !.halfmoves = IF st.old # NoPiece THEN 0 ELSE @]]

\* Position.reset(): the state of Makruk.default()
DefaultPos == Pos(BoardDefault, "white", 0, 1)

Min2(x, y) == IF x < y THEN x ELSE y

Max2(x, y) == IF x > y THEN x ELSE y

\* the counting of a check, taken from the counter of the side that is now to move
countCheckOfOpponent(pos, rc, move, r) ==
    IF r.threw \/ get(pos.board, move.from).piece = NoPiece \/ ~rc.defined
    THEN [threw |-> r.threw, pos |-> r.pos, remainingChecks |-> rc]
    ELSE [threw |-> FALSE, pos |-> r.pos,
          remainingChecks |-> IF isCheck(r.pos)
                              THEN [rc EXCEPT ![r.pos.turn] = Max2(@ - 1, 0)]
                              ELSE rc]

\* the last statement of Position.play(move), r being what the statements before
\* it made of pos: the counters are reached only when a piece stood on move.from
\* and nothing threw; pos.turn is the side that moved
countCheck(pos, rc, move, r) ==
    IF r.threw \/ get(pos.board, move.from).piece = NoPiece \/ ~rc.defined
    THEN [threw |-> r.threw, pos |-> r.pos, remainingChecks |-> rc]
    ELSE [threw |-> FALSE, pos |-> r.pos,
          remainingChecks |-> IF isCheck(r.pos)
                              THEN [rc EXCEPT ![pos.turn] = Max2(@ - 1, 0)]
                              ELSE rc]

\* Position.play(move) on a position whose remainingChecks is rc: [threw, pos,
\* remainingChecks]
playChecks(pos, rc, move) == countCheck(pos, rc, move, play(pos, move))

\* toSetup with the two clamps of fullmoves applied in the wrong order
toSetupClampSwapped(pos) ==
    [board |-> BoardClone(pos.board),
     turn |-> pos.turn,
     halfmoves |-> Min2(pos.halfmoves, 150),
     fullmoves |-> Max2(Min2(pos.fullmoves, 1), 9999)]

\* Position.toSetup
toSetup(pos) ==
    [board |-> BoardClone(pos.board),
     turn |-> pos.turn,
     halfmoves |-> Min2(pos.halfmoves, 150),
     fullmoves |-> Min2(Max2(pos.fullmoves, 1), 9999)]

\* Position.setupUnchecked
setupUnchecked(setup) ==
    Pos(BoardClone(setup.board), setup.turn, setup.halfmoves, setup.fullmoves)

\* Position.validate: "ok" or the IllegalSetup tag of the error it returns
validate(pos) ==
    IF pos.board.occupied = {} THEN "ERR_EMPTY"
    ELSE IF Cardinality(pos.board.king) # 2 THEN "ERR_KINGS"
    ELSE IF ~defined(kingOf(pos.board, pos.turn)) THEN "ERR_KINGS"
    ELSE LET otherKing == kingOf(pos.board, opposite(pos.turn))
         IN  IF ~defined(otherKing) THEN "ERR_KINGS"
             ELSE IF kingAttackers(pos, otherKing, pos.turn, pos.board.occupied) # {}
             THEN "ERR_OPPOSITE_CHECK"
             ELSE IF backranks \cap pos.board.pawn # {} THEN "ERR_PAWNS_ON_BACKRANK"
             ELSE "ok"

\* Makruk.fromSetup: [error, pos]; error is "ok" when pos is returned
fromSetup(setup) ==
    LET pos == setupUnchecked(setup)
    IN  [error |-> validate(pos), pos |-> pos]

\* isStandardMaterialSide with fewer than eight pawns and promoted pieces required
isStandardMaterialSideStrict(b, color) ==
    LET promoted ==
            Max2(Cardinality(pieces(b, color, "queen")) - 1, 0)
            + Max2(Cardinality(pieces(b, color, "rook")) - 2, 0)
            + Max2(Cardinality(pieces(b, color, "knight")) - 2, 0)
            + Max2(Cardinality(pieces(b, color, "bishop") \cap lightSquares) - 1, 0)
            + Max2(Cardinality(pieces(b, color, "bishop") \cap darkSquares) - 1, 0)
    IN  Cardinality(pieces(b, color, "pawn")) + promoted < 8

\* isStandardMaterialSide(board, color)
isStandardMaterialSide(b, color) ==
    LET promoted ==
            Max2(Cardinality(pieces(b, color, "queen")) - 1, 0)
            + Max2(Cardinality(pieces(b, color, "rook")) - 2, 0)
            + Max2(Cardinality(pieces(b, color, "knight")) - 2, 0)
            + Max2(Cardinality(pieces(b, color, "bishop") \cap lightSquares) - 1, 0)
            + Max2(Cardinality(pieces(b, color, "bishop") \cap darkSquares) - 1, 0)
    IN  Cardinality(pieces(b, color, "pawn")) + promoted <= 8

\* isStandardMaterial(pos): the only rule set is 'makruk'
isStandardMaterial(pos) ==
    \A color \in COLORS : isStandardMaterialSide(pos.board, color)

\* isImpossibleCheck without the test of the ray of the two checkers
isImpossibleCheckAnyTwo(pos) ==
    LET ourKing == kingOf(pos.board, pos.turn)
        checkers == IF defined(ourKing)
                    THEN kingAttackers(pos, ourKing, opposite(pos.turn), pos.board.occupied)
                    ELSE {}
    IN  IF ~defined(ourKing) THEN FALSE
        ELSE IF checkers = {} THEN FALSE
        ELSE Cardinality(checkers) >= 2

\* isImpossibleCheck
isImpossibleCheck(pos) ==
    LET ourKing == kingOf(pos.board, pos.turn)
        checkers == IF defined(ourKing)
                    THEN kingAttackers(pos, ourKing, opposite(pos.turn), pos.board.occupied)
                    ELSE {}
    IN  IF ~defined(ourKing) THEN FALSE
        ELSE IF checkers = {} THEN FALSE
        ELSE \/ Cardinality(checkers) > 2
             \/ Cardinality(checkers) = 2 /\ ourKing \in ray(first(checkers), last(checkers))

(***************************************************************************)
(* The values of the variables a specification makes no use of             *)
(***************************************************************************)
NoMove == [from |-> None, to |-> None, promotion |-> "none"]

AttackIdle == sqA = 0 /\ sqB = 0 /\ occ = {} /\ fn = "none" /\ res = {} /\ arg = {}

\* Position.remainingChecks undefined, as reset() and setupUnchecked() leave it
NoChecks == [defined |-> FALSE, white |-> 0, black |-> 0]

AuxIdle ==
    /\ placed = <<>> /\ uci = <<>> /\ iter = <<>> /\ heap = <<>>
    /\ remainingChecks = NoChecks

(***************************************************************************)
(* The attack functions applied to drawn arguments                         *)
(***************************************************************************)
MaxOcc == 2

\* the occupancy of test('rook attacks'): new SquareSet(0x2826f5b9, 0x3f7f2880)
TestOcc == SquareSet(BitsOf(673641913), BitsOf(1065298048))

\* the attacks that test expects of a rook on d6: new SquareSet(0x8000000, 0x83708)
TestRookAttacks == SquareSet(BitsOf(134217728), BitsOf(538376))

\* occupancies drawn for a rook on square: nothing or the test's occupancy, plus
\* up to MaxOcc more squares on the rook's rank and file
Occupancies(square) ==
    {bg \cup extra :
        bg \in {{}, TestOcc},
        extra \in {e \in SUBSET (FILE_RANGE[square] \cup RANK_RANGE[square]) :
                        Cardinality(e) <= MaxOcc}}

InitAttacks ==
    /\ sqA \in Squares
    /\ \/ sqB = sqA /\ occ \in Occupancies(sqA)
       \/ sqB \in Squares \ {sqA} /\ occ = {}
    /\ fn = "none"
    /\ res = {}
    /\ arg = {}
    /\ board = DefaultPos.board
    /\ turn = DefaultPos.turn
    /\ halfmoves = DefaultPos.halfmoves
    /\ fullmoves = DefaultPos.fullmoves
    /\ failure = "none"
    /\ line = <<"none", 0>>
    /\ legal = TRUE
    /\ plies = 0
    /\ stage = "position"
    /\ lastMove = NoMove
    /\ AuxIdle

ApplyRookAttacks ==
    /\ fn = "none"
    /\ fn' = "rookAttacks"
    /\ res' = rookAttacks(sqA, occ)
    /\ UNCHANGED <<sqA, sqB, occ, arg>>
    /\ UNCHANGED posVars
    /\ UNCHANGED auxVars

ApplyRay ==
    /\ fn = "none"
    /\ fn' = "ray"
    /\ res' = ray(sqA, sqB)
    /\ UNCHANGED <<sqA, sqB, occ, arg>>
    /\ UNCHANGED posVars
    /\ UNCHANGED auxVars

ApplyBetween ==
    /\ fn = "none"
    /\ fn' = "between"
    /\ res' = between(sqA, sqB)
    /\ UNCHANGED <<sqA, sqB, occ, arg>>
    /\ UNCHANGED posVars
    /\ UNCHANGED auxVars

NextAttacks == ApplyRookAttacks \/ ApplyRay \/ ApplyBetween

SpecAttacks == InitAttacks /\ [][NextAttacks]_vars

(***************************************************************************)
(* SquareSet.minus64 applied to drawn square sets                          *)
(***************************************************************************)
\* the bits set or cleared in a drawn 32-bit half
MaxMinusBits == 1

\* the lowest, a middle and the highest (sign) bit of a half
ProbeBits == {0, 15, 31}

\* the halves drawn: up to MaxMinusBits of the probe bits set, or all bits but them
MinusWords ==
    LET few == {b \in SUBSET ProbeBits : Cardinality(b) <= MaxMinusBits}
    IN  few \cup {WordBits \ b : b \in few}

InitMinus ==
    /\ \E xlo \in MinusWords, xhi \in MinusWords : occ = SquareSet(xlo, xhi)
    /\ \E ylo \in MinusWords, yhi \in MinusWords : arg = SquareSet(ylo, yhi)
    /\ sqA = 0 /\ sqB = 0
    /\ fn = "none"
    /\ res = {}
    /\ board = DefaultPos.board
    /\ turn = DefaultPos.turn
    /\ halfmoves = DefaultPos.halfmoves
    /\ fullmoves = DefaultPos.fullmoves
    /\ failure = "none"
    /\ line = <<"none", 0>>
    /\ legal = TRUE
    /\ plies = 0
    /\ stage = "position"
    /\ lastMove = NoMove
    /\ AuxIdle

ApplyMinus64 ==
    /\ fn = "none"
    /\ fn' = "minus64"
    /\ res' = minus64(occ, arg)
    /\ UNCHANGED <<sqA, sqB, occ, arg>>
    /\ UNCHANGED posVars
    /\ UNCHANGED auxVars

SpecMinus == InitMinus /\ [][ApplyMinus64]_vars

(***************************************************************************)
(* The game: Makruk.default() and play                                     *)
(***************************************************************************)
MaxPlies == 3

\* the line of test('parse fools mate'): e2e4 e7e5 d1h5 g8f6 f1c4 b8c6 h5f7
FoolsMate ==
    <<Move(12, 28, "none"), Move(52, 36, "none"), Move(3, 39, "none"),
      Move(62, 45, "none"), Move(5, 26, "none"), Move(57, 42, "none"),
      Move(39, 53, "none")>>

\* a line of legal pawn moves that ends with a pawn taking a piece on the back
\* rank: a2a4 h7h6 a4a5 h6h5 a5a6 h5h4 a6b7 g7g6 b7c8 (promoting to a queen)
PawnRaid ==
    <<Move(8, 24, "none"), Move(55, 47, "none"), Move(24, 32, "none"),
      Move(47, 39, "none"), Move(32, 40, "none"), Move(39, 31, "none"),
      Move(40, 49, "none"), Move(54, 46, "none"), Move(49, 58, "queen")>>

\* the same line with the pawn promoting to a king on c8
PawnCrown == [PawnRaid EXCEPT ![9] = Move(49, 58, "king")]

Lines == [foolsMate |-> FoolsMate, pawnRaid |-> PawnRaid, pawnCrown |-> PawnCrown]

\* the value of line once a move outside the line has been played
Off == <<"none", 0>>

Promotions == {"none"} \cup RoleSet

\* the position held in the variables
cur == Pos(board, turn, halfmoves, fullmoves)

SetPos(r) ==
    /\ board' = r.pos.board
    /\ turn' = r.pos.turn
    /\ halfmoves' = r.pos.halfmoves
    /\ fullmoves' = r.pos.fullmoves
    /\ failure' = IF r.threw THEN "TypeError" ELSE "none"

InitGame ==
    /\ board = DefaultPos.board
    /\ turn = DefaultPos.turn
    /\ halfmoves = DefaultPos.halfmoves
    /\ fullmoves = DefaultPos.fullmoves
    /\ failure = "none"
    /\ line \in {<<name, 0>> : name \in DOMAIN Lines}
    /\ legal = TRUE
    /\ plies = 0
    /\ stage = "position"
    /\ lastMove = NoMove
    /\ AttackIdle
    /\ AuxIdle

\* pos.play(m) for a move m that pos.isLegal(m) accepts, at most bound times
PlayLegalUpTo(bound) ==
    /\ stage = "position"
    /\ legal
    /\ plies < bound
    /\ \E c \in {ctx(cur)}, from \in Squares :
         \E d \in {destsCtx(cur, from, c)} :
            /\ ~d.threw
            /\ \E to \in d.value, promotion \in Promotions :
                 \E m \in {Move(from, to, promotion)} :
                    /\ isLegalCtx(cur, m, c).value
                    /\ \E r \in {play(cur, m)} : SetPos(r)
                    /\ lastMove' = m
                    /\ line' = IF line # Off /\ line[2] < Len(Lines[line[1]])
                                  /\ m = Lines[line[1]][line[2] + 1]
                               THEN <<line[1], line[2] + 1>> ELSE Off
    /\ plies' = plies + 1
    /\ UNCHANGED <<legal, stage>>
    /\ UNCHANGED attackVars
    /\ UNCHANGED auxVars

PlayLegal == PlayLegalUpTo(MaxPlies)

\* the next pos.play of the line (as test('parse fools mate') makes them),
\* whatever isLegal says
PlayLine ==
    /\ line # Off
    /\ line[2] < Len(Lines[line[1]])
    /\ failure = "none"
    /\ \E m \in {Lines[line[1]][line[2] + 1]} :
         \E l \in {isLegal(cur, m)}, r \in {play(cur, m)} :
            /\ SetPos(r)
            /\ legal' = (legal /\ ~l.threw /\ l.value)
            /\ lastMove' = m
    /\ line' = <<line[1], line[2] + 1>>
    /\ plies' = plies + 1
    /\ UNCHANGED stage
    /\ UNCHANGED attackVars
    /\ UNCHANGED auxVars

NextGame == PlayLegal \/ PlayLine

SpecGame == InitGame /\ [][NextGame]_vars

(***************************************************************************)
(* Positions from setups: a board built from Board.empty() by Board.set,   *)
(* validated by Makruk.fromSetup, then played                              *)
(***************************************************************************)
MaxPieces == 4

MaxSetupPlies == 1

\* the halfmove clock given to fromSetup
SetupHalfmoves == {3}

\* the (square, piece) pairs a setup board is built from
Placements ==
    {<<27, Piece("white", "king")>>,         \* Kd4
     <<60, Piece("black", "king")>>,         \* ke8
     <<0,  Piece("white", "king")>>,         \* a second white king on a1
     <<59, Piece("black", "rook")>>,         \* rd8, on the file of d4
     <<11, Piece("black", "pawn")>>,         \* pd2, on the file of d4
     <<37, Piece("black", "knight")>>,       \* nf5, a knight's move from d4
     <<36, Piece("black", "pawn")>>,         \* pe5, attacking d4
     <<34, Piece("black", "bishop")>>,       \* sc5, attacking d4
     <<41, Piece("black", "queen")>>,        \* mb6, attacking c5
     <<20, Piece("black", "promotedpawn")>>, \* e3, diagonally next to d4
     <<35, Piece("white", "pawn")>>,         \* Pd5, between d4 and d8
     <<4,  Piece("white", "rook")>>,         \* Re1, on the file of e8
     <<53, Piece("white", "queen")>>,        \* Mf7, diagonally next to e8
     <<63, Piece("white", "pawn")>>,         \* Ph8, on a back rank
     <<52, Piece("white", "pawn")>>,         \* Pe7, one step from promotion
     <<49, Piece("white", "pawn")>>,         \* Pb7, free to promote on b8
     <<18, Piece("white", "knight")>>,       \* Nc3
     <<51, Piece("white", "bishop")>>}       \* Sd7, attacking e8

InitSetup ==
    /\ board = BoardEmpty
    /\ turn = "white"
    /\ halfmoves = 0
    /\ fullmoves = 1
    /\ failure = "none"
    /\ line = Off
    /\ legal = TRUE
    /\ plies = 0
    /\ stage = "setup"
    /\ lastMove = NoMove
    /\ AttackIdle
    /\ AuxIdle

\* setup.board.set(square, piece)
Place ==
    /\ stage = "setup"
    /\ Cardinality(board.occupied) < MaxPieces
    /\ \E p \in Placements :
         \E r \in {set(board, p[1], p[2])} :
            /\ board' = r.board
            /\ failure' = IF r.threw THEN "TypeError" ELSE "none"
    /\ UNCHANGED <<turn, halfmoves, fullmoves, line, legal, plies, stage, lastMove>>
    /\ UNCHANGED attackVars
    /\ UNCHANGED auxVars

\* Makruk.fromSetup({board, turn, halfmoves, fullmoves})
FromSetup ==
    /\ stage = "setup"
    /\ \E t \in COLORS, h \in SetupHalfmoves :
         \E r \in {fromSetup([board |-> board, turn |-> t,
                              halfmoves |-> h, fullmoves |-> fullmoves])} :
            /\ board' = r.pos.board
            /\ turn' = r.pos.turn
            /\ halfmoves' = r.pos.halfmoves
            /\ fullmoves' = r.pos.fullmoves
            /\ failure' = IF r.error = "ok" THEN "none" ELSE r.error
            /\ stage' = IF r.error = "ok" THEN "position" ELSE "error"
    /\ UNCHANGED <<line, legal, plies, lastMove>>
    /\ UNCHANGED attackVars
    /\ UNCHANGED auxVars

PlayFromSetup == PlayLegalUpTo(MaxSetupPlies)

NextSetup == Place \/ FromSetup \/ PlayFromSetup

SpecSetup == InitSetup /\ [][NextSetup]_vars

\* the positions fromSetup returns, before any move is played
NextPositions == Place \/ FromSetup

SpecPositions == InitSetup /\ [][NextPositions]_vars

(***************************************************************************)
(* The board alone: Board.empty(), then set and take calls                 *)
(***************************************************************************)
MaxBoardSquare == 2

\* the squares the calls are made on, of both halves of the square sets
BoardSquares == {21 * k : k \in 0..MaxBoardSquare}

Pieces == {Piece(color, role) : color \in COLORS, role \in RoleSet}

InitBoard ==
    /\ board = BoardEmpty
    /\ placed = [on |-> [sq \in BoardSquares |-> NoPiece], last |-> "empty"]
    /\ turn = "white"
    /\ halfmoves = 0
    /\ fullmoves = 1
    /\ failure = "none"
    /\ line = Off
    /\ legal = TRUE
    /\ plies = 0
    /\ stage = "setup"
    /\ lastMove = NoMove
    /\ AttackIdle
    /\ uci = <<>> /\ iter = <<>> /\ heap = <<>>
    /\ remainingChecks = NoChecks

\* board.set(square, piece)
SetPiece ==
    /\ failure = "none"
    /\ \E sq \in BoardSquares, piece \in Pieces :
         \E r \in {set(board, sq, piece)} :
            /\ board' = r.board
            /\ failure' = IF r.threw THEN "TypeError" ELSE "none"
            /\ placed' = [on |-> [placed.on EXCEPT ![sq] = piece],
                          last |-> IF r.old = NoPiece THEN "set" ELSE "replaced"]
    /\ UNCHANGED <<turn, halfmoves, fullmoves, line, legal, plies, stage, lastMove>>
    /\ UNCHANGED attackVars
    /\ UNCHANGED <<uci, iter, heap, remainingChecks>>

\* board.take(square)
TakePiece ==
    /\ failure = "none"
    /\ \E sq \in BoardSquares :
         \E r \in {take(board, sq)} :
            /\ board' = r.board
            /\ failure' = IF r.threw THEN "TypeError" ELSE "none"
            /\ placed' = [on |-> [placed.on EXCEPT ![sq] = NoPiece],
                          last |-> IF r.piece = NoPiece THEN "tookNothing" ELSE "taken"]
    /\ UNCHANGED <<turn, halfmoves, fullmoves, line, legal, plies, stage, lastMove>>
    /\ UNCHANGED attackVars
    /\ UNCHANGED <<uci, iter, heap, remainingChecks>>

NextBoard == SetPiece \/ TakePiece

SpecBoard == InitBoard /\ [][NextBoard]_vars

(***************************************************************************)
(* UCI notation (util.ts): a string is the sequence of its characters      *)
(***************************************************************************)

FILE_NAMES == <<"a", "b", "c", "d", "e", "f", "g", "h">>

RANK_NAMES == <<"1", "2", "3", "4", "5", "6", "7", "8">>

LowerCase ==
    <<"a", "b", "c", "d", "e", "f", "g", "h", "i", "j", "k", "l", "m",
      "n", "o", "p", "q", "r", "s", "t", "u", "v", "w", "x", "y", "z">>

UpperCase ==
    <<"A", "B", "C", "D", "E", "F", "G", "H", "I", "J", "K", "L", "M",
      "N", "O", "P", "Q", "R", "S", "T", "U", "V", "W", "X", "Y", "Z">>

Digits == <<"0", "1", "2", "3", "4", "5", "6", "7", "8", "9">>

IndexOf(seq, ch) == CHOOSE i \in 1..Len(seq) : seq[i] = ch

Has(seq, ch) == \E i \in 1..Len(seq) : seq[i] = ch

\* String.charCodeAt for a letter or a digit
charCodeAt(ch) ==
    IF Has(LowerCase, ch) THEN 96 + IndexOf(LowerCase, ch)
    ELSE IF Has(UpperCase, ch) THEN 64 + IndexOf(UpperCase, ch)
    ELSE 47 + IndexOf(Digits, ch)

\* String.toLowerCase for one character
toLowerCase(ch) ==
    IF Has(UpperCase, ch) THEN LowerCase[IndexOf(UpperCase, ch)] ELSE ch

squareFromCoords(file, rank) ==
    IF 0 <= file /\ file < 8 /\ 0 <= rank /\ rank < 8 THEN file + 8 * rank ELSE None

roleToChar(role) ==
    CASE role = "pawn" -> "p"
      [] role = "promotedpawn" -> "M"
      [] role = "knight" -> "n"
      [] role = "bishop" -> "s"
      [] role = "rook" -> "r"
      [] role = "queen" -> "m"
      [] role = "king" -> "k"

\* charToRole: a switch on ch.toLowerCase(), whose cases are tried in order;
\* "none" is undefined
charToRole(ch) ==
    LET c == toLowerCase(ch)
    IN  IF c = "p" THEN "pawn"
        ELSE IF c = "M" THEN "promotedpawn"
        ELSE IF c = "n" THEN "knight"
        ELSE IF c = "s" THEN "bishop"
        ELSE IF c = "r" THEN "rook"
        ELSE IF c = "m" THEN "queen"
        ELSE IF c = "k" THEN "king"
        ELSE "none"

parseSquare(str) ==
    IF Len(str) # 2 THEN None
    ELSE squareFromCoords(charCodeAt(str[1]) - charCodeAt("a"),
                          charCodeAt(str[2]) - charCodeAt("1"))

makeSquare(square) ==
    <<FILE_NAMES[squareFile(square) + 1], RANK_NAMES[squareRank(square) + 1]>>

\* the result of a parseUci that returns undefined
NoUci == [defined |-> FALSE, move |-> NoMove]

\* parseUci(str): [defined, move]
parseUci(str) ==
    IF Len(str) \notin {4, 5} THEN NoUci
    ELSE LET from == parseSquare(SubSeq(str, 1, 2))
             to == parseSquare(SubSeq(str, 3, 4))
             promotion == IF Len(str) = 5 THEN charToRole(str[5]) ELSE "none"
         IN  IF Len(str) = 5 /\ promotion = "none" THEN NoUci
             ELSE IF defined(from) /\ defined(to)
             THEN [defined |-> TRUE, move |-> Move(from, to, promotion)]
             ELSE NoUci

makeUci(move) ==
    makeSquare(move.from) \o makeSquare(move.to) \o
        (IF move.promotion # "none" THEN <<roleToChar(move.promotion)>> ELSE <<>>)

MaxUciSquare == 6

\* the squares a1, b2, ..., of every file and rank
UciSquares == {9 * k : k \in 0..MaxUciSquare}

\* the strings parsed by test('parse uci')
TestUcis == {<<"a", "1", "a", "2">>, <<"h", "7", "h", "8", "q">>}

\* no string made or given yet
NoUciString == [from |-> "none", move |-> NoMove, str |-> <<>>, parsed |-> NoUci]

InitUci ==
    /\ board = BoardEmpty
    /\ turn = "white"
    /\ halfmoves = 0
    /\ fullmoves = 1
    /\ failure = "none"
    /\ line = Off
    /\ legal = TRUE
    /\ plies = 0
    /\ stage = "uci"
    /\ lastMove = NoMove
    /\ AttackIdle
    /\ placed = <<>> /\ iter = <<>> /\ heap = <<>>
    /\ remainingChecks = NoChecks
    /\ uci = NoUciString

\* makeUci(move) followed by parseUci of the string it returns
MakeThenParse ==
    /\ \E from \in UciSquares, to \in UciSquares, promotion \in Promotions :
         \E str \in {makeUci(Move(from, to, promotion))} :
            uci' = [from |-> "makeUci", move |-> Move(from, to, promotion),
                    str |-> str, parsed |-> parseUci(str)]
    /\ UNCHANGED posVars
    /\ UNCHANGED attackVars
    /\ UNCHANGED <<placed, iter, heap, remainingChecks>>

\* parseUci of a string of test('parse uci')
ParseGiven ==
    /\ \E str \in TestUcis :
         uci' = [from |-> "test", move |-> NoMove, str |-> str, parsed |-> parseUci(str)]
    /\ UNCHANGED posVars
    /\ UNCHANGED attackVars
    /\ UNCHANGED <<placed, iter, heap, remainingChecks>>

NextUci == MakeThenParse \/ ParseGiven

SpecUci == InitUci /\ [][NextUci]_vars

(***************************************************************************)
(* Iteration of a square set (squareSet.ts): an iterator is the pair of    *)
(* words lo, hi it still has to yield                                      *)
(***************************************************************************)

\* SquareSet[Symbol.iterator](): the iterator copies the two words of the set
iterator(s) == [lo |-> lo(s), hi |-> hi(s)]

\* next() of the forward iterator: [it, value, done]; lo & -lo is the lowest
\* bit of lo, and lo ^= 1 << idx clears it
iteratorNext(it) ==
    IF it.lo # {}
    THEN [it |-> [it EXCEPT !.lo = @ \ {SetMin(it.lo)}],
          value |-> SetMin(it.lo), done |-> FALSE]
    ELSE IF it.hi # {}
    THEN [it |-> [it EXCEPT !.hi = @ \ {SetMin(it.hi)}],
          value |-> 32 + SetMin(it.hi), done |-> FALSE]
    ELSE [it |-> it, value |-> None, done |-> TRUE]

\* SquareSet.reversed(): the iterable holds lo and hi in the closure of the
\* reversed() call; its [Symbol.iterator]() returns an object with no words of
\* its own
reversed(s) == [lo |-> lo(s), hi |-> hi(s)]

\* next() of an iterator of the reversed iterable, on the closure's words:
\* [it, value, done]
reversedNext(it) ==
    IF it.hi # {}
    THEN [it |-> [it EXCEPT !.hi = @ \ {SetMax(it.hi)}],
          value |-> 32 + SetMax(it.hi), done |-> FALSE]
    ELSE IF it.lo # {}
    THEN [it |-> [it EXCEPT !.lo = @ \ {SetMax(it.lo)}],
          value |-> SetMax(it.lo), done |-> FALSE]
    ELSE [it |-> it, value |-> None, done |-> TRUE]

\* the traversals started on one set or on one iterable
MaxRuns == 2

\* squares at both ends of both words
IterSquares == {0, 31, 32, 63}

InitIter ==
    /\ board = BoardEmpty
    /\ turn = "white"
    /\ halfmoves = 0
    /\ fullmoves = 1
    /\ failure = "none"
    /\ line = Off
    /\ legal = TRUE
    /\ plies = 0
    /\ stage = "iterate"
    /\ lastMove = NoMove
    /\ AttackIdle
    /\ placed = <<>> /\ uci = <<>> /\ heap = <<>>
    /\ remainingChecks = NoChecks
    /\ \E s \in SUBSET IterSquares :
         iter = [s |-> s, kind |-> "none", it |-> iterator({}), out |-> <<>>,
                 done |-> TRUE, runs |-> 0]

\* for (const square of s): the loop asks s for an iterator
StartForward ==
    /\ iter.kind \in {"none", "forward"}
    /\ iter.done
    /\ iter.runs < MaxRuns
    /\ iter' = [s |-> iter.s, kind |-> "forward", it |-> iterator(iter.s),
                out |-> <<>>, done |-> FALSE, runs |-> iter.runs + 1]
    /\ UNCHANGED posVars
    /\ UNCHANGED attackVars
    /\ UNCHANGED <<placed, uci, heap, remainingChecks>>

\* const r = s.reversed()
CallReversed ==
    /\ iter.kind = "none"
    /\ iter' = [iter EXCEPT !.kind = "reversed", !.it = reversed(iter.s)]
    /\ UNCHANGED posVars
    /\ UNCHANGED attackVars
    /\ UNCHANGED <<placed, uci, heap, remainingChecks>>

\* for (const square of r): the loop asks r for an iterator
StartReversed ==
    /\ iter.kind = "reversed"
    /\ iter.done
    /\ iter.runs < MaxRuns
    /\ iter' = [iter EXCEPT !.out = <<>>, !.done = FALSE, !.runs = @ + 1]
    /\ UNCHANGED posVars
    /\ UNCHANGED attackVars
    /\ UNCHANGED <<placed, uci, heap, remainingChecks>>

\* one next() call of the running loop
LoopNext ==
    /\ ~iter.done
    /\ \E r \in {IF iter.kind = "forward" THEN iteratorNext(iter.it)
                 ELSE reversedNext(iter.it)} :
         iter' = [iter EXCEPT !.it = r.it, !.done = r.done,
                              !.out = IF r.done THEN @ ELSE Append(@, r.value)]
    /\ UNCHANGED posVars
    /\ UNCHANGED attackVars
    /\ UNCHANGED <<placed, uci, heap, remainingChecks>>

NextIter == StartForward \/ CallReversed \/ StartReversed \/ LoopNext

SpecIter == InitIter /\ [][NextIter]_vars

(***************************************************************************)
(* Objects: the Board objects are heap.boards, the address of one is its    *)
(* index; a Position or a Setup object holds the address of its board and  *)
(* its other fields by value. The square sets of a Board are immutable     *)
(* (readonly lo, hi), so a Board is mutated by assigning its properties.   *)
(***************************************************************************)

\* new Board() with the properties of b: [heap, ref]
NewBoard(h, b) ==
    [heap |-> [h EXCEPT !.boards = Append(@, b)], ref |-> Len(h.boards) + 1]

\* a Position or Setup object with its board at ref and the other fields of v
Object(ref, v) ==
    [board |-> ref, turn |-> v.turn, halfmoves |-> v.halfmoves, fullmoves |-> v.fullmoves]

\* what a Position or Setup object holds, its board read through the reference
deref(h, obj) == Pos(h.boards[obj.board], obj.turn, obj.halfmoves, obj.fullmoves)

\* clone handing its own Board object to the new position
cloneSharingBoard(h, i) ==
    [h EXCEPT !.positions = Append(@, @[i])]

\* Position.clone() of position i: the heap with the new position added
clone(h, i) ==
    LET p == h.positions[i]
        nb == NewBoard(h, BoardClone(h.boards[p.board]))
    IN  [nb.heap EXCEPT !.positions = Append(@, Object(nb.ref, p))]

\* Position.toSetup() of position i: the heap with the new setup added
toSetupObject(h, i) ==
    LET v == toSetup(deref(h, h.positions[i]))
        nb == NewBoard(h, v.board)
    IN  [nb.heap EXCEPT !.setups = Append(@, Object(nb.ref, v))]

\* Makruk.fromSetup(setup j): the heap with the new position added, unless
\* validate returns an error
fromSetupObject(h, j) ==
    LET r == fromSetup(deref(h, h.setups[j]))
        nb == NewBoard(h, r.pos.board)
    IN  IF r.error # "ok" THEN h
        ELSE [nb.heap EXCEPT !.positions = Append(@, Object(nb.ref, r.pos))]

\* Position.play(move) on position i: take and set assign the properties of the
\* Board object this.board refers to
playObject(h, i, move) ==
    LET p == h.positions[i]
        r == play(deref(h, p), move)
    IN  [h EXCEPT !.boards[p.board] = r.pos.board,
                  !.positions[i] = Object(p.board, r.pos)]

\* setup.board.set(square, piece) on setup j
setOnSetup(h, j, square, piece) ==
    [h EXCEPT !.boards[h.setups[j].board] = set(@, square, piece).board]

\* the calls made on the objects
MaxOps == 4

RECURSIVE BoardOf(_)
\* Board.empty() after board.set(square, piece) for each <<square, piece>> of ps
BoardOf(ps) ==
    IF ps = <<>> THEN BoardEmpty
    ELSE set(BoardOf(SubSeq(ps, 1, Len(ps) - 1)), ps[Len(ps)][1], ps[Len(ps)][2]).board

\* Kd4, ke8 and a white pawn on b7
ObjectBoards ==
    {BoardOf(<<<<27, Piece("white", "king")>>, <<60, Piece("black", "king")>>,
               <<49, Piece("white", "pawn")>>>>)}

\* Kd5, b8 promoting, ke7, kf8
ObjectMoves ==
    {Move(27, 35, "none"), Move(49, 57, "promotedpawn"),
     Move(60, 52, "none"), Move(60, 61, "none")}

\* a white rook on a1
SetupSets == {<<0, Piece("white", "rook")>>}

InitObjects ==
    /\ board = BoardEmpty
    /\ turn = "white"
    /\ halfmoves = 0
    /\ fullmoves = 1
    /\ failure = "none"
    /\ line = Off
    /\ legal = TRUE
    /\ plies = 0
    /\ stage = "objects"
    /\ lastMove = NoMove
    /\ AttackIdle
    /\ placed = <<>> /\ uci = <<>> /\ iter = <<>>
    /\ remainingChecks = NoChecks
    /\ \E b \in ObjectBoards, t \in COLORS :
         heap = [boards |-> <<b>>,
                 positions |-> <<>>,
                 origins |-> <<>>,
                 setups |-> <<[board |-> 1, turn |-> t, halfmoves |-> 3, fullmoves |-> 1]>>,
                 ops |-> 0,
                 last |-> [op |-> "none", target |-> 0]]

\* Makruk.fromSetup(setup)
PositionFromSetup ==
    /\ heap.ops < MaxOps
    /\ \E j \in 1..Len(heap.setups) :
         \E h \in {fromSetupObject(heap, j)} :
            heap' = [h EXCEPT !.last = [op |-> "fromSetup", target |-> j],
                              !.ops = @ + 1,
                              !.origins = IF Len(h.positions) > Len(heap.positions)
                                          THEN Append(@, "fromSetup") ELSE @]
    /\ UNCHANGED posVars
    /\ UNCHANGED attackVars
    /\ UNCHANGED <<placed, uci, iter, remainingChecks>>

\* pos.clone()
ClonePosition ==
    /\ heap.ops < MaxOps
    /\ \E i \in 1..Len(heap.positions) :
         heap' = [clone(heap, i) EXCEPT !.last = [op |-> "clone", target |-> i],
                                        !.ops = @ + 1,
                                        !.origins = Append(@, "clone")]
    /\ UNCHANGED posVars
    /\ UNCHANGED attackVars
    /\ UNCHANGED <<placed, uci, iter, remainingChecks>>

\* pos.toSetup()
PositionToSetup ==
    /\ heap.ops < MaxOps
    /\ \E i \in 1..Len(heap.positions) :
         heap' = [toSetupObject(heap, i) EXCEPT !.last = [op |-> "toSetup", target |-> i],
                                                !.ops = @ + 1]
    /\ UNCHANGED posVars
    /\ UNCHANGED attackVars
    /\ UNCHANGED <<placed, uci, iter, remainingChecks>>

\* pos.play(move) for a move that pos.isLegal(move) accepts
PlayOnPosition ==
    /\ heap.ops < MaxOps
    /\ \E i \in 1..Len(heap.positions), move \in ObjectMoves :
         /\ isLegal(deref(heap, heap.positions[i]), move).value
         /\ heap' = [playObject(heap, i, move) EXCEPT
                        !.last = [op |-> "play", target |-> i], !.ops = @ + 1]
    /\ UNCHANGED posVars
    /\ UNCHANGED attackVars
    /\ UNCHANGED <<placed, uci, iter, remainingChecks>>

\* setup.board.set(square, piece)
SetOnSetupBoard ==
    /\ heap.ops < MaxOps
    /\ \E j \in 1..Len(heap.setups), sp \in SetupSets :
         heap' = [setOnSetup(heap, j, sp[1], sp[2]) EXCEPT
                     !.last = [op |-> "setupSet", target |-> j], !.ops = @ + 1]
    /\ UNCHANGED posVars
    /\ UNCHANGED attackVars
    /\ UNCHANGED <<placed, uci, iter, remainingChecks>>

\* setup.turn = opposite(setup.turn)
FlipSetupTurn ==
    /\ heap.ops < MaxOps
    /\ \E j \in 1..Len(heap.setups) :
         heap' = [heap EXCEPT !.setups[j].turn = opposite(@),
                              !.last = [op |-> "setupTurn", target |-> j],
                              !.ops = @ + 1]
    /\ UNCHANGED posVars
    /\ UNCHANGED attackVars
    /\ UNCHANGED <<placed, uci, iter, remainingChecks>>

NextObjects ==
    \/ PositionFromSetup
    \/ ClonePosition
    \/ PositionToSetup
    \/ PlayOnPosition
    \/ SetOnSetupBoard
    \/ FlipSetupTurn

SpecObjects == InitObjects /\ [][NextObjects]_vars

(***************************************************************************)
(* The check counters: positions from a setup whose remainingChecks the     *)
(* caller has assigned, then play                                          *)
(***************************************************************************)

\* the largest counter assigned
MaxChecks == 2

\* the play calls made
MaxCheckPlies == 2

\* Ka1, Rh2 against ke8, rb8; and the board of Makruk.default()
CheckBoards ==
    {BoardOf(<<<<0, Piece("white", "king")>>, <<15, Piece("white", "rook")>>,
               <<60, Piece("black", "king")>>, <<57, Piece("black", "rook")>>>>),
     BoardDefault}

\* moves that isLegal rejects: from an empty square, and of a piece of the side
\* that is not to move
CheckOtherMoves == {Move(20, 28, "none"), Move(15, 12, "none"), Move(60, 52, "none")}

InitChecks ==
    /\ \E b \in CheckBoards, t \in COLORS, w \in {0, MaxChecks}, k \in {0, MaxChecks} :
         \E r \in {IF b = BoardDefault THEN [error |-> "ok", pos |-> DefaultPos]
                     ELSE fromSetup([board |-> b, turn |-> t, halfmoves |-> 0,
                                     fullmoves |-> 1])} :
            /\ r.error = "ok"
            /\ b = BoardDefault => t = "white"
            /\ board = r.pos.board
            /\ turn = r.pos.turn
            /\ halfmoves = r.pos.halfmoves
            /\ fullmoves = r.pos.fullmoves
            /\ remainingChecks = [defined |-> TRUE, white |-> w, black |-> k]
    /\ failure = "none"
    /\ line = Off
    /\ legal = TRUE
    /\ plies = 0
    /\ stage = "position"
    /\ lastMove = NoMove
    /\ AttackIdle
    /\ placed = <<>> /\ uci = <<>> /\ iter = <<>> /\ heap = <<>>

\* the step of a pos.play(m) on a position with check counters
PlayWithChecks(m) ==
    /\ \E r \in {playChecks(cur, remainingChecks, m)} :
         /\ SetPos(r)
         /\ remainingChecks' = r.remainingChecks
    /\ lastMove' = m
    /\ plies' = plies + 1
    /\ UNCHANGED <<line, stage>>
    /\ UNCHANGED attackVars
    /\ UNCHANGED <<placed, uci, iter, heap>>

\* pos.play(m) for a move that pos.isLegal(m) accepts
PlayLegalWithChecks ==
    /\ plies < MaxCheckPlies
    /\ failure = "none"
    /\ \E c \in {ctx(cur)}, from \in board[turn] :
         \E d \in {destsCtx(cur, from, c)} :
            /\ ~d.threw
            /\ \E to \in d.value, promotion \in Promotions :
                 /\ isLegalCtx(cur, Move(from, to, promotion), c).value
                 /\ PlayWithChecks(Move(from, to, promotion))
    /\ UNCHANGED legal

\* pos.play(m) for a move that pos.isLegal(m) rejects
PlayOtherWithChecks ==
    /\ plies < MaxCheckPlies
    /\ failure = "none"
    /\ \E m \in CheckOtherMoves :
         /\ \E l \in {isLegal(cur, m)} : l.threw \/ ~l.value
         /\ PlayWithChecks(m)
    /\ legal' = FALSE

NextChecks == PlayLegalWithChecks \/ PlayOtherWithChecks

SpecChecks == InitChecks /\ [][NextChecks]_vars

(***************************************************************************)
(* Positions around Kd4 and ke8: pieces on the lines of the white king,    *)
(* checkers of it and pieces to answer them, validated by Makruk.fromSetup  *)
(***************************************************************************)

\* the pieces set on the board besides the two kings
MaxExtras == 3

LinePieces ==
    {<<59, Piece("black", "rook")>>,         \* rd8, on the file of d4
     <<31, Piece("black", "rook")>>,         \* rh4, on the rank of d4
     <<37, Piece("black", "knight")>>,       \* nf5, a knight's move from d4
     <<36, Piece("black", "pawn")>>,         \* pe5, attacking d4
     <<51, Piece("black", "knight")>>,       \* nd7, on the file of d4
     <<29, Piece("black", "queen")>>,        \* mf4, on the rank of d4
     <<43, Piece("white", "rook")>>,         \* Rd6, between d4 and d8
     <<35, Piece("white", "pawn")>>,         \* Pd5, between d4 and d8
     <<30, Piece("white", "knight")>>,       \* Ng4, between d4 and h4
     <<28, Piece("white", "promotedpawn")>>, \* e4, between d4 and h4
     <<45, Piece("white", "bishop")>>,       \* Sf6, next to e5
     <<44, Piece("white", "queen")>>}        \* Me6, next to d7 and f5

RECURSIVE BoardWith(_, _)
\* b after board.set(square, piece) for each <<square, piece>> of S
BoardWith(b, S) ==
    IF S = {} THEN b
    ELSE LET p == CHOOSE p \in S : \A q \in S : p[1] <= q[1]
         IN  BoardWith(set(b, p[1], p[2]).board, S \ {p})

InitLines ==
    /\ \E S \in {T \in SUBSET LinePieces : Cardinality(T) <= MaxExtras}, t \in COLORS :
         \E r \in {fromSetup([board |-> BoardWith(BoardOf(<<<<27, Piece("white", "king")>>,
                                                             <<60, Piece("black", "king")>>>>), S),
                              turn |-> t, halfmoves |-> 0, fullmoves |-> 1])} :
            /\ r.error = "ok"
            /\ board = r.pos.board
            /\ turn = r.pos.turn
            /\ halfmoves = r.pos.halfmoves
            /\ fullmoves = r.pos.fullmoves
    /\ failure = "none"
    /\ line = Off
    /\ legal = TRUE
    /\ plies = 0
    /\ stage = "position"
    /\ lastMove = NoMove
    /\ AttackIdle
    /\ AuxIdle

\* one pos.play(m) for a move m that pos.isLegal(m) accepts
PlayOnce == PlayLegalUpTo(1)

SpecLines == InitLines /\ [][PlayOnce]_vars

(***************************************************************************)
(* Claims                                                                  *)
(***************************************************************************)

\* the run of test('parse fools mate') is over: all seven moves were played, or a
\* play call ended with an error
LineOver == line[1] = "foolsMate" /\ (line[2] = Len(FoolsMate) \/ failure # "none")

\* C1: from Makruk.default(), after play of e2e4, e7e5, d1h5, g8f6, f1c4, b8c6,
\* h5f7 in that order, isCheckmate() returns true.
C1_FoolsMateIsCheckmate ==
    LineOver =>
        /\ line[2] = Len(FoolsMate)
        /\ failure = "none"
        /\ ~isCheckmate(cur).threw
        /\ isCheckmate(cur).value

\* C2: for every position P reached from Makruk.default() by legal play,
\* Makruk.fromSetup(P.toSetup()) succeeds and yields a position with the board,
\* turn, halfmoves and fullmoves of P.
C2_SetupRoundTrip ==
    legal =>
        \E r \in {fromSetup(toSetup(cur))} :
            /\ r.error = "ok"
            /\ r.pos.board = board
            /\ r.pos.turn = turn
            /\ r.pos.halfmoves = halfmoves
            /\ r.pos.fullmoves = fullmoves

\* a position reached by legal play in which a capture has been made round-trips
C2_Witness ==
    /\ legal
    /\ plies >= 3
    /\ Cardinality(board.occupied) < 32
    /\ fromSetup(toSetup(cur)).pos = cur

\* C3: in Makruk.default() the destination sets of all 64 squares hold exactly 20
\* squares in total: two for each of the eight pawns of the side to move (single
\* and double step), two for each of its two knights, none for any other square.
C3_DefaultDests ==
    cur = DefaultPos =>
        /\ \A sq \in Squares : ~dests(cur, sq).threw
        /\ \A sq \in 8..15 : dests(cur, sq).value = {sq + 8, sq + 16}
        /\ dests(cur, 1).value = {16, 18}
        /\ dests(cur, 6).value = {21, 23}
        /\ \A sq \in Squares \ ((8..15) \cup {1, 6}) : dests(cur, sq).value = {}
        /\ Cardinality({<<sq, to>> \in Squares \X Squares : to \in dests(cur, sq).value}) = 20

\* the reference ray walk: from square, step by (df, dr) up to and including the
\* first occupied square or the edge of the board
Walk(square, df, dr, occupied) ==
    {t \in Squares : \E k \in 1..7 :
        /\ squareFile(t) = squareFile(square) + k * df
        /\ squareRank(t) = squareRank(square) + k * dr
        /\ \A j \in 1..(k - 1) : (square + j * (df + 8 * dr)) \notin occupied}

RookWalk(square, occupied) ==
    Walk(square, 1, 0, occupied) \cup Walk(square, -1, 0, occupied)
        \cup Walk(square, 0, 1, occupied) \cup Walk(square, 0, -1, occupied)

\* C6: rookAttacks(square, occupied) equals the reference ray walk along the four
\* rank/file directions up to and including the first occupied square; on an
\* empty board it is the full rank and file minus the square itself (and the
\* rook on d6 against the test occupancy attacks exactly the test's squares).
C6_RookAttacksIsRayWalk ==
    fn = "rookAttacks" =>
        /\ res = RookWalk(sqA, occ)
        /\ occ = {} =>
             res = {t \in Squares \ {sqA} :
                       squareFile(t) = squareFile(sqA) \/ squareRank(t) = squareRank(sqA)}
        /\ (sqA = 43 /\ occ = TestOcc) => res = TestRookAttacks

\* the rook on d6 under the occupancy of the test, where blockers cut every ray
C6_Witness ==
    /\ fn = "rookAttacks" /\ sqA = 43 /\ occ = TestOcc
    /\ res = TestRookAttacks
    /\ res # RookWalk(sqA, {})

\* the squares strictly between a and b on the rank or file they share
LineBetween(a, b) ==
    IF a # b /\ squareRank(a) = squareRank(b)
    THEN {t \in Squares : squareRank(t) = squareRank(a)
              /\ Min2(a, b) < t /\ t < Max2(a, b)}
    ELSE IF a # b /\ squareFile(a) = squareFile(b)
    THEN {t \in Squares : squareFile(t) = squareFile(a)
              /\ Min2(a, b) < t /\ t < Max2(a, b)}
    ELSE {}

Diagonal(a, b) ==
    a # b /\ Abs(squareFile(a) - squareFile(b)) = Abs(squareRank(a) - squareRank(b))

\* the squares strictly between a and b on the diagonal they share
DiagonalBetween(a, b) ==
    {t \in Squares : /\ Diagonal(a, t) /\ Diagonal(t, b)
                     /\ Min2(a, b) < t /\ t < Max2(a, b)
                     /\ Abs(squareFile(a) - squareFile(t))
                          + Abs(squareFile(t) - squareFile(b))
                          = Abs(squareFile(a) - squareFile(b))}

\* C8: for two distinct squares a and b on one diagonal, between(a, b) is the set
\* of squares strictly between them on that diagonal (between(61, 47) = {54}).
C8_BetweenOnDiagonal ==
    (fn = "between" /\ Diagonal(sqA, sqB)) => res = DiagonalBetween(sqA, sqB)

\* the squares from which a piece of color attacker attacks square by the pattern
\* of its own role, under the board's occupancy
Attackers(b, square, attacker) ==
    {sq \in b[attacker] :
        \E g \in {get(b, sq)} :
            ~g.threw /\ g.piece.role \in RoleSet
                /\ square \in attacks(g.piece, sq, b.occupied)}

\* C4: every destination d of the king of the side to move has
\* kingAttackers(d, opponent, occupied without the king's square) empty, and after
\* play of a legal king move no piece of the other side attacks the moved king.
C4_KingNeverMovesIntoAttack ==
    /\ [](stage = "position" =>
            \E k \in {kingOf(board, turn)} :
                defined(k) =>
                    \A d \in dests(cur, k).value :
                        kingAttackers(cur, d, opposite(turn), board.occupied \ {k}) = {})
    /\ [][(stage = "position" /\ plies' = plies + 1 /\ failure' = "none"
            /\ defined(kingOf(board, turn))
            /\ kingOf(board', turn) # kingOf(board, turn))
          => Attackers(board', kingOf(board', turn), turn') = {}]_vars

\* C5: when the side to move has exactly one king, ctx().checkers is the set of
\* squares of opposing pieces that attack the king's square by their own role's
\* pattern, and isCheck() is true iff that set is non-empty.
C5_CheckersAreAttackers ==
    (stage = "position" /\ defined(kingOf(board, turn))) =>
        /\ ctx(cur).checkers = Attackers(board, kingOf(board, turn), opposite(turn))
        /\ isCheck(cur) <=> (Attackers(board, kingOf(board, turn), opposite(turn)) # {})

\* a and b are two squares on one rank or one file, and k is on it too
OnOneLine(a, b, k) ==
    /\ a # b
    /\ \/ squareRank(a) = squareRank(b) /\ squareRank(k) = squareRank(a)
       \/ squareFile(a) = squareFile(b) /\ squareFile(k) = squareFile(a)

ExpectedSetupError(b, t) ==
    IF b.occupied = {} THEN "ERR_EMPTY"
    ELSE IF \E color \in COLORS : Cardinality(pieces(b, color, "king")) # 1
    THEN "ERR_KINGS"
    ELSE IF Attackers(b, kingOf(b, opposite(t)), t) # {} THEN "ERR_OPPOSITE_CHECK"
    ELSE IF \E sq \in b.pawn : squareRank(sq) \in {0, 7} THEN "ERR_PAWNS_ON_BACKRANK"
    ELSE "ok"

\* C10: fromSetup returns an error (and never throws) iff the board is empty, or
\* not each color has exactly one king, or the king of the side not to move is
\* attacked by the side to move, or a pawn stands on rank 0 or 7; the tag is the
\* first that applies in that order; otherwise it returns a position.
C10_FromSetupErrors ==
    (stage # "setup" /\ plies = 0) =>
        \E e \in {ExpectedSetupError(board, turn)} :
            /\ failure = (IF e = "ok" THEN "none" ELSE e)
            /\ (stage = "position") <=> (e = "ok")

\* C11: on Makruk.default() and on every position reached from it by legal play,
\* every role set of the board is a defined square set, and dests(square) for
\* every square, allDests(), outcome() and every legal play complete without
\* failure.
C11_DefaultIsTotal ==
    legal =>
        /\ board.undef = {}
        /\ failure = "none"
        /\ \A sq \in Squares : ~dests(cur, sq).threw
        /\ ~allDests(cur).threw
        /\ ~outcome(cur).threw

Played == stage = "position" /\ plies' = plies + 1

\* C13: for every legal move m, play(m) flips turn, adds 1 to fullmoves iff the
\* mover was black, and sets halfmoves to 0 if the moved piece was a pawn or the
\* destination held a piece before the move, otherwise to halfmoves + 1.
C13_PlayCounters ==
    [][Played =>
        /\ turn' = opposite(turn)
        /\ fullmoves' = IF turn = "black" THEN fullmoves + 1 ELSE fullmoves
        /\ halfmoves' = IF \/ lastMove'.from \in board.pawn
                           \/ lastMove'.to \in board.occupied
                        THEN 0 ELSE halfmoves + 1]_vars

\* black has moved a piece that is no pawn to an empty square, the clock at 3
C13_Witness ==
    /\ stage = "position" /\ plies = 1
    /\ turn = "white" /\ fullmoves = 2 /\ halfmoves = 4
    /\ lastMove.to \notin board.pawn

\* C14: for every legal move m = {from, to, promotion}, after play(m) the square
\* from is empty, the square to holds a piece of the mover's color whose role is
\* the promotion if given and otherwise the role of the piece that stood on from,
\* and the occupant of every other square is unchanged.
C14_PlayMovesOnePiece ==
    [][(Played /\ legal') =>
        \E m \in {lastMove'} :
            /\ failure' = "none"
            /\ get(board', m.from) = [threw |-> FALSE, piece |-> NoPiece]
            /\ get(board', m.to) =
                 [threw |-> FALSE,
                  piece |-> Piece(turn, IF m.promotion # "none" THEN m.promotion
                                        ELSE get(board, m.from).piece.role)]
            /\ \A sq \in Squares \ {m.from, m.to} : get(board', sq) = get(board, sq)]_vars

\* C15: isLegal(move) is true iff move.to is in dests(move.from), move.promotion
\* is not 'pawn', and a promotion role is given exactly when the piece on
\* move.from is a pawn and move.to is on rank 0 or rank 7.
C15_IsLegal ==
    stage = "position" =>
        \E c \in {ctx(cur)} :
            \A from \in board.occupied \cup {SetMin(Squares \ board.occupied)} :
                \E d \in {destsCtx(cur, from, c)}, g \in {get(board, from)} :
                    \A to \in d.value \cup KING_ATTACKS[from] \cup backranks,
                       promotion \in Promotions :
                        \E l \in {isLegalCtx(cur, Move(from, to, promotion), c)} :
                            l.value <=>
                                 /\ ~d.threw /\ to \in d.value
                                 /\ promotion # "pawn"
                                 /\ (promotion # "none") <=>
                                      (g.piece.role = "pawn" /\ squareRank(to) \in {0, 7})

\* a pawn that may step to the back rank with a promotion, and not without
C15_Witness ==
    /\ stage = "position"
    /\ isLegal(cur, Move(49, 57, "queen")).value
    /\ ~isLegal(cur, Move(49, 57, "none")).value
    /\ 57 \in dests(cur, 49).value

\* C16: for every position, outcome() is the win of opposite(turn) if the side to
\* move is in check and none of its pieces has a destination; otherwise a draw
\* if isInsufficientMaterial() or (not in check and no piece has a destination);
\* otherwise undefined; and isCheckmate and isStalemate are never both true.
C16_Outcome ==
    stage = "position" =>
        \E c \in {ctx(cur)} :
            \E o \in {outcome(cur)}, inCheck \in {isCheck(cur)},
               stuck \in {\A sq \in board[turn] : destsCtx(cur, sq, c).value = {}} :
                /\ ~o.threw
                /\ o.value = IF inCheck /\ stuck THEN opposite(turn)
                             ELSE IF isInsufficientMaterial(cur) \/ (~inCheck /\ stuck)
                             THEN "draw" ELSE "undefined"
                /\ ~(isCheckmate(cur).value /\ isStalemate(cur).value)

\* C17: hasInsufficientMaterial(color) is false whenever that color has a pawn
\* or a rook; hence isInsufficientMaterial() is false for every position in
\* which either side has a rook.
C17_RookIsSufficient ==
    stage = "position" =>
        /\ \A color \in COLORS :
              board[color] \cap (board.pawn \cup board.rook) # {}
                  => ~hasInsufficientMaterial(cur, color)
        /\ board.rook # {} => ~isInsufficientMaterial(cur)

\* C18: for every move m, parseUci(makeUci(m)) is a move with the same from, to
\* and promotion as m; a five-character string whose last character denotes a
\* role parses to a move carrying that role.
C18_UciRoundTrip ==
    /\ uci.from = "makeUci" => uci.parsed = [defined |-> TRUE, move |-> uci.move]
    /\ \A role \in RoleSet :
          Len(uci.str) = 5 /\ uci.str[5] = roleToChar(role)
              => uci.parsed.defined /\ uci.parsed.move.promotion = role

RECURSIVE Ascending(_)
\* the members of a set in ascending order
Ascending(S) == IF S = {} THEN <<>> ELSE <<SetMin(S)>> \o Ascending(S \ {SetMin(S)})

RECURSIVE Descending(_)
\* the members of a set in descending order
Descending(S) == IF S = {} THEN <<>> ELSE <<SetMax(S)>> \o Descending(S \ {SetMax(S)})

\* C20: iterating s yields each member once in ascending order, iterating
\* s.reversed() yields each member once in descending order, and every
\* traversal, also a second one of the same set or of the same iterable
\* returned by one reversed() call, yields the full sequence.
C20_FreshTraversals ==
    stage = "iterate" /\ iter.runs > 0 /\ iter.done =>
        iter.out = IF iter.kind = "forward" THEN Ascending(iter.s)
                   ELSE Descending(iter.s)

\* C19: P.clone() has the same board, turn, halfmoves and fullmoves as P; play
\* calls on one position leave every other position, the one it was cloned
\* from and its clones included, unchanged; and mutating a Setup passed to
\* fromSetup or returned by toSetup changes no position.
C19_NoAliasing ==
    [][stage = "objects" =>
        /\ \A k \in 1..Len(heap.positions) :
              \/ heap'.last = [op |-> "play", target |-> k]
              \/ deref(heap', heap'.positions[k]) = deref(heap, heap.positions[k])
        /\ heap'.last.op = "clone" /\ heap'.ops = heap.ops + 1 =>
              deref(heap', heap'.positions[Len(heap'.positions)])
                  = deref(heap, heap.positions[heap'.last.target])]_vars

\* a clone has been played on and differs from the position it was cloned from,
\* whose setup has had a piece set on its board since
C19_Witness ==
    /\ stage = "objects"
    /\ Len(heap.positions) = 2
    /\ heap.origins = <<"fromSetup", "clone">>
    /\ heap.last = [op |-> "play", target |-> 2]
    /\ deref(heap, heap.positions[1]) # deref(heap, heap.positions[2])
    /\ heap.boards[heap.setups[1].board] \notin ObjectBoards

KingEscapes(pos, king) ==
    {to \in kingAttacks(king) \ pos.board[pos.turn] :
        kingAttackers(pos, to, opposite(pos.turn), pos.board.occupied \ {king}) = {}}

\* C22: when the side to move is in check, dests(kingSquare) equals the
\* king-pattern squares not occupied by own pieces and not attacked by the
\* opponent with the king removed from the occupancy, whatever the number of
\* checkers, and a king with such a square is not reported as checkmated.
C22_KingEscapesCheck ==
    stage = "position" =>
        \E c \in {ctx(cur)} :
            defined(c.king) /\ c.checkers # {} =>
                /\ destsCtx(cur, c.king, c) =
                      [threw |-> FALSE, value |-> KingEscapes(cur, c.king)]
                /\ KingEscapes(cur, c.king) # {} => ~isCheckmate(cur).value

\* C23: for every non-king piece of the side to move, if ctx().checkers has
\* exactly one member c, dests(square) is a subset of between(c, kingSquare)
\* with c; if ctx().checkers has more than one member, dests(square) is empty.
C23_CheckRestrictsPieces ==
    stage = "position" =>
        \E c \in {ctx(cur)} :
            \A square \in board[turn] \ board.king :
                \E d \in {destsCtx(cur, square, c)} :
                    /\ Cardinality(c.checkers) = 1 =>
                          \A checker \in c.checkers :
                              d.value \subseteq between(checker, c.king) \cup {checker}
                    /\ Cardinality(c.checkers) > 1 => d.value = {}

\* one checker, and a piece that is no king which may take it or step between,
\* and may go nowhere else
C23_Witness ==
    /\ stage = "position"
    /\ \E c \in {ctx(cur)} :
          /\ Cardinality(c.checkers) = 1
          /\ \E square \in board[turn] \ board.king :
                \E d \in {destsCtx(cur, square, c)}, g \in {get(board, square)} :
                    /\ d.value # {}
                    /\ d.value # pseudoOf(cur, square, g.piece) \ board[turn]

\* the sole occupied squares strictly between king and an opposing piece of one of
\* the given roles on the king's rank or file
SoleBetween(pos, king, roles) ==
    {sq \in pos.board.occupied :
        \E sniper \in pos.board[opposite(pos.turn)] :
            /\ \E role \in roles : sniper \in pos.board[role]
            /\ sniper # king
            /\ squareRank(sniper) = squareRank(king) \/ squareFile(sniper) = squareFile(king)
            /\ LineBetween(king, sniper) \cap pos.board.occupied = {sq}}

\* C24: ctx().blockers is exactly the set of sole occupied squares strictly between
\* the king of the side to move and an opposing rook on the king's rank or file; an
\* opposing piece that is not a rook makes no piece a blocker.
C24_BlockersOfRooks ==
    stage = "position" =>
        \E c \in {ctx(cur)} :
            defined(c.king) => c.blockers = SoleBetween(cur, c.king, {"rook"})

\* C25: for every piece of the side to move on a square of ctx().blockers,
\* dests(square) is a subset of ray(square, king), and after any legal move of that
\* piece no opposing piece on the line through square and king has a free line to
\* the mover's king.
C25_PinnedStaysOnLine ==
    stage = "position" =>
        \E c \in {ctx(cur)} :
            \A square \in c.blockers \cap board[turn] :
                \E d \in {destsCtx(cur, square, c)} :
                    /\ ~d.threw
                    /\ d.value \subseteq ray(square, c.king)
                    /\ \A to \in d.value, promotion \in Promotions :
                         \E m \in {Move(square, to, promotion)} :
                            isLegalCtx(cur, m, c).value =>
                                \E r \in {play(cur, m)} :
                                    /\ ~r.threw
                                    /\ \A sniper \in r.pos.board[opposite(turn)] :
                                         (\/ /\ squareRank(square) = squareRank(c.king)
                                             /\ squareRank(sniper) = squareRank(c.king)
                                          \/ /\ squareFile(square) = squareFile(c.king)
                                             /\ squareFile(sniper) = squareFile(c.king))
                                           => LineBetween(c.king, sniper)
                                                 \cap r.pos.board.occupied # {}

\* a rook pinned on a file by a rook, with moves along the file and none off it
C25_Witness ==
    /\ stage = "position"
    /\ \E c \in {ctx(cur)} :
         \E square \in c.blockers \cap board[turn] \cap board.rook :
            \E d \in {destsCtx(cur, square, c)}, g \in {get(board, square)} :
                /\ c.checkers = {}
                /\ SoleBetween(cur, c.king, {"rook"}) = {square}
                /\ Cardinality(d.value) >= 2
                /\ d.value # pseudoOf(cur, square, g.piece) \ board[turn]

\* the rank on which Board.reset() sets the pawns of a color
StartRank(color) == IF color = "white" THEN 1 ELSE 6

\* the squares a pawn of the side to move on square may go to by the rules: a
\* capture one step diagonally forward, one step forward onto an empty square, two
\* steps forward from the starting rank over an empty square onto an empty square
PawnMoves(pos, square) ==
    LET forward == IF pos.turn = "white" THEN 1 ELSE -1
        rank == squareRank(square)
        file == squareFile(square)
        At(r, f) == {t \in Squares : squareRank(t) = r /\ squareFile(t) = f}
        captures == (At(rank + forward, file - 1) \cup At(rank + forward, file + 1))
                        \cap pos.board[opposite(pos.turn)]
        one == At(rank + forward, file) \ pos.board.occupied
        two == IF rank = StartRank(pos.turn) /\ one # {}
               THEN At(rank + 2 * forward, file) \ pos.board.occupied
               ELSE {}
    IN  captures \cup one \cup two

\* C26: every destination of a pawn of the side to move is a diagonally-forward
\* adjacent square holding an opposing piece, the empty square one step forward, or
\* the empty square two steps forward from the starting rank over an empty square;
\* none is off the board or across a board edge.
C26_PawnDests ==
    stage = "position" =>
        \E c \in {ctx(cur)} :
            \A square \in board.pawn \cap board[turn] :
                \E d \in {destsCtx(cur, square, c)} :
                    /\ ~d.threw
                    /\ d.value \subseteq PawnMoves(cur, square)
                    /\ (c.checkers = {} /\ square \notin c.blockers)
                          => d.value = PawnMoves(cur, square)

\* one pawn with a double step and one pawn with a capture among its destinations
C26_Witness ==
    /\ stage = "position"
    /\ \E square \in board.pawn \cap board[turn] :
         \E to \in dests(cur, square).value : Abs(squareRank(to) - squareRank(square)) = 2
    /\ \E square \in board.pawn \cap board[turn] :
         \E to \in dests(cur, square).value : squareFile(to) # squareFile(square)

\* C27: for every non-pawn piece p of the side to move on square s, dests(s) is a
\* subset of attacks(p, s, board.occupied) without the mover's own pieces, and for
\* every square s dests(s) is a subset of pseudoDests(pos, s, ctx).
C27_DestsWithinAttacks ==
    stage = "position" =>
        \E c \in {ctx(cur)} :
            \A s \in board[turn] :
                \E d \in {destsCtx(cur, s, c)}, g \in {get(board, s)},
                   p \in {pseudoDests(cur, s, c)} :
                    /\ ~d.threw /\ ~p.threw
                    /\ d.value \subseteq p.value
                    /\ g.piece.role # "pawn"
                          => d.value \subseteq attacks(g.piece, s, board.occupied) \ board[turn]

\* the number held in bits 16 * k .. 16 * k + 15 of the square set s
Limb(s, k) ==
    LET sum[i \in 0..16] ==
            IF i = 0 THEN 0
            ELSE sum[i - 1] + (IF (16 * k + i - 1) \in s THEN 2 ^ (i - 1) ELSE 0)
    IN  sum[16]

RECURSIVE LimbBorrow(_, _, _)
\* the borrow of x - y into the 16-bit limb k, by schoolbook subtraction
LimbBorrow(x, y, k) ==
    IF k = 0 THEN 0
    ELSE IF Limb(x, k - 1) - Limb(y, k - 1) - LimbBorrow(x, y, k - 1) < 0 THEN 1 ELSE 0

\* (x - y) mod 2^64 as a set of bits
Minus64Value(x, y) ==
    UNION {{16 * k + i : i \in {j \in 0..15 :
                ((((Limb(x, k) - Limb(y, k) - LimbBorrow(x, y, k)) % 65536)
                    \div (2 ^ j)) % 2) = 1}} : k \in 0..3}

\* C28: x.minus64(y) is (x - y) mod 2^64 taken as one 64-bit value, the borrow of
\* the low halves going into the high half.
C28_Minus64 ==
    fn = "minus64" => res = Minus64Value(occ, arg)

\* a subtraction whose low half borrows from the high half
C28_Witness ==
    /\ fn = "minus64"
    /\ LimbBorrow(occ, arg, 2) = 1
    /\ res = Minus64Value(occ, arg)
    /\ hi(res) # Sub32(hi(occ), hi(arg))

C30_StandardMaterial ==
    (stage = "position" /\ legal) => isStandardMaterial(cur)

\* a position after a capture, one side short of a pawn
C30_Witness ==
    /\ stage = "position" /\ legal /\ failure = "none"
    /\ line = Off
    /\ \E color \in COLORS : Cardinality(pieces(board, color, "pawn")) < 8
    /\ isStandardMaterial(cur)


====
